---- MODULE Spec2Model ----
(***************************************************************************)
(* A model of the Scrabble placement engine of scrabble_real_code.py:      *)
(* the tile bag, the racks, the 15x15 board with its premium squares,      *)
(* Word.check_word, Board.place_word, Word.calculate_word_score and the    *)
(* turn() / end_game() control flow.                                       *)
(*                                                                         *)
(* Python strings the code inspects character by character (board cells,   *)
(* words) are sequences of one-character strings; "ESC" stands for the     *)
(* single escape character \033.  Players are numbered from 0 as in the    *)
(* players list; board rows and columns are numbered from 0.               *)
(***************************************************************************)
EXTENDS Integers, Sequences, FiniteSets, TLC

VARIABLES
    board,          \* Board.board: cell (row, col) -> tag of the cell's string (see CellStr)
    bag,            \* Bag.bag: the list of tiles, popped from its end
    bag_inits,      \* number of initialize_bag calls so far (names the Tile objects created)
    racks,          \* players[i].rack.rack: the list of tiles of player i
    scores,         \* players[i].score
    num_of_players, \* len(players)
    round_number,   \* global round_number
    skipped_turns,  \* global skipped_turns
    player,         \* the player argument of the running turn() call (index in players)
    pc,             \* position in turn() / end_game()
    word,           \* the Word object of the running turn(): word, location, direction
    word_to_play,   \* local of turn()
    location,       \* local of turn()
    direction,      \* local of turn()
    checked,        \* local of turn(): the last value check_word returned
    premium_spots,  \* global premium_spots
    winning_player  \* local of end_game(): the name it announces ("" until one is found)

vars == <<board, bag, bag_inits, racks, scores, num_of_players, round_number,
          skipped_turns, player, pc, word, word_to_play, location, direction,
          checked, premium_spots, winning_player>>

-----------------------------------------------------------------------------
(* Bounds of the exploration *)

\* Spec offers a turn while fewer than MaxTurns turns have been completed
MaxTurns == 6
\* SpecPlacement offers a turn while fewer than MaxPlacementTurns have been completed
MaxPlacementTurns == 3
\* initialize_bag is called at most MaxBagInits times
MaxBagInits == 2
\* Spec offers a renew while at most MaxDrawn tiles have left the bag
MaxDrawn == 21
\* SpecSupply offers a turn while fewer than MaxSupplyTurns have been completed,
\* a placement while fewer than MaxSupplyPlacementTurns have been completed,
\* and a renew while at most MaxSupplyDrawn tiles have left the bag
MaxSupplyTurns == 6
MaxSupplyPlacementTurns == 1
MaxSupplyDrawn == 119
\* SpecScoring offers a turn while fewer than MaxScoringTurns have been completed
MaxScoringTurns == 3

-----------------------------------------------------------------------------
(* Program constants *)

BOARD_SIZE == 15
RACK_SIZE == 7
REFILL_BELOW == 10
MAX_SKIPS == 6

Letters ==
    {"A","B","C","D","E","F","G","H","I","J","K","L","M",
     "N","O","P","Q","R","S","T","U","V","W","X","Y","Z"}

LETTER_VALUES ==
    [l \in Letters |->
        CASE l \in {"A","E","I","L","N","O","R","S","T","U"} -> 1
          [] l \in {"D","G"} -> 2
          [] l \in {"B","C","M","P"} -> 3
          [] l \in {"F","H","V","W","Y"} -> 4
          [] l = "K" -> 5
          [] l \in {"J","X"} -> 8
          [] l \in {"Q","Z"} -> 10]

\* ANSI escape codes, as character sequences
RED_TEXT        == <<"ESC","[","1",";","3","1","m">>
BLUE_TEXT       == <<"ESC","[","0",";","3","4","m">>
LIGHT_BLUE_TEXT == <<"ESC","[","1",";","3","4","m">>
CYAN_TEXT       == <<"ESC","[","0",";","3","6","m">>
LIGHT_CYAN_TEXT == <<"ESC","[","1",";","3","6","m">>
RESET_TEXT      == <<"ESC","[","0","m">>

\* The quantities initialize_bag adds, in the order of its add_to_bag calls
Distribution ==
    << <<"A",9>>, <<"B",2>>, <<"C",2>>, <<"D",4>>, <<"E",12>>, <<"F",2>>,
       <<"G",3>>, <<"H",2>>, <<"I",9>>, <<"J",9>>, <<"K",1>>, <<"L",4>>,
       <<"M",2>>, <<"N",6>>, <<"O",8>>, <<"P",2>>, <<"Q",1>>, <<"R",6>>,
       <<"S",4>>, <<"T",6>>, <<"U",4>>, <<"V",2>>, <<"W",2>>, <<"X",1>>,
       <<"Y",2>>, <<"Z",1>> >>

TRIPLE_WORD_SCORE ==
    {<<0,0>>, <<7,0>>, <<14,0>>, <<0,7>>, <<14,7>>, <<0,14>>, <<7,14>>, <<14,14>>}
DOUBLE_WORD_SCORE ==
    {<<1,1>>, <<2,2>>, <<3,3>>, <<4,4>>, <<1,13>>, <<2,12>>, <<3,11>>, <<4,10>>,
     <<13,1>>, <<12,2>>, <<11,3>>, <<10,4>>, <<13,13>>, <<12,12>>, <<11,11>>, <<10,10>>}
TRIPLE_LETTER_SCORE ==
    {<<1,5>>, <<1,9>>, <<5,1>>, <<5,5>>, <<5,9>>, <<5,13>>, <<9,1>>, <<9,5>>,
     <<9,9>>, <<9,13>>, <<13,5>>, <<13,9>>}
DOUBLE_LETTER_SCORE ==
    {<<0,3>>, <<0,11>>, <<2,6>>, <<2,8>>, <<3,0>>, <<3,7>>, <<3,14>>, <<6,2>>,
     <<6,6>>, <<6,8>>, <<6,12>>, <<7,3>>, <<7,11>>, <<8,2>>, <<8,6>>, <<8,8>>,
     <<8,12>>, <<11,0>>, <<11,7>>, <<11,14>>, <<12,6>>, <<12,8>>, <<14,3>>, <<14,11>>}

-----------------------------------------------------------------------------
(* Strings *)

\* str.strip(): the string without its leading and trailing blanks
RECURSIVE LStrip(_)
LStrip(s) == IF s # <<>> /\ Head(s) = " " THEN LStrip(Tail(s)) ELSE s

RECURSIVE RStrip(_)
RStrip(s) ==
    IF s # <<>> /\ s[Len(s)] = " " THEN RStrip(SubSeq(s, 1, Len(s) - 1)) ELSE s

Strip(s) == RStrip(LStrip(s))

LowerCase ==
    <<"a","b","c","d","e","f","g","h","i","j","k","l","m",
      "n","o","p","q","r","s","t","u","v","w","x","y","z">>
UpperCase ==
    <<"A","B","C","D","E","F","G","H","I","J","K","L","M",
      "N","O","P","Q","R","S","T","U","V","W","X","Y","Z">>

\* str.upper() and str.lower(), character by character
UpperChar(c) ==
    IF \E i \in 1..Len(LowerCase) : LowerCase[i] = c
    THEN UpperCase[CHOOSE i \in 1..Len(LowerCase) : LowerCase[i] = c]
    ELSE c
LowerChar(c) ==
    IF \E i \in 1..Len(UpperCase) : UpperCase[i] = c
    THEN LowerCase[CHOOSE i \in 1..Len(UpperCase) : UpperCase[i] = c]
    ELSE c
Upper(s) == [i \in 1..Len(s) |-> UpperChar(s[i])]
Lower(s) == [i \in 1..Len(s) |-> LowerChar(s[i])]

RIGHT == <<"r","i","g","h","t">>
DOWN  == <<"d","o","w","n">>

\* [str(x) for x in range(15)]
RangeStrings ==
    << <<"0">>, <<"1">>, <<"2">>, <<"3">>, <<"4">>, <<"5">>, <<"6">>, <<"7">>,
       <<"8">>, <<"9">>, <<"1","0">>, <<"1","1">>, <<"1","2">>, <<"1","3">>,
       <<"1","4">> >>
InRangeStrings(s) == \E i \in 1..Len(RangeStrings) : RangeStrings[i] = s
\* int(s), for the strings turn() converts
ToInt(s) == (CHOOSE i \in 1..Len(RangeStrings) : RangeStrings[i] = s) - 1

-----------------------------------------------------------------------------
(* Board *)

Cells == (0..(BOARD_SIZE - 1)) \X (0..(BOARD_SIZE - 1))

\* The string a board cell holds, by the cell's tag: "   " as built by
\* Board.__init__, a premium marker or the center mark in its colour codes,
\* or a letter written by place_word
CellStr(tag) ==
    CASE tag = "empty"  -> <<" "," "," ">>
      [] tag = "TWS"    -> LIGHT_BLUE_TEXT \o <<"T","W","S">> \o RESET_TEXT
      [] tag = "TLS"    -> BLUE_TEXT \o <<"T","L","S">> \o RESET_TEXT
      [] tag = "DWS"    -> LIGHT_CYAN_TEXT \o <<"D","W","S">> \o RESET_TEXT
      [] tag = "DLS"    -> CYAN_TEXT \o <<"D","L","S">> \o RESET_TEXT
      [] tag = "center" -> RED_TEXT \o <<" ","*"," ">> \o RESET_TEXT
      [] OTHER          -> <<" ">> \o RED_TEXT \o <<tag>> \o RESET_TEXT \o <<" ">>

\* Board.__init__ with add_premium_squares: later assignments overwrite earlier ones
InitialBoard ==
    [c \in Cells |->
        IF c = <<7,7>> THEN "center"
        ELSE IF c \in DOUBLE_LETTER_SCORE THEN "DLS"
        ELSE IF c \in DOUBLE_WORD_SCORE THEN "DWS"
        ELSE IF c \in TRIPLE_LETTER_SCORE THEN "TLS"
        ELSE IF c \in TRIPLE_WORD_SCORE THEN "TWS"
        ELSE "empty"]

\* Python list indexing of a list of 15 elements: negative indices count from the end
IndexOK(i) == -BOARD_SIZE <= i /\ i < BOARD_SIZE
PyIndex(i) == IF i < 0 THEN i + BOARD_SIZE ELSE i
\* the cell board[r][c] names
At(r, c) == <<PyIndex(r), PyIndex(c)>>

-----------------------------------------------------------------------------
(* Bag and Rack.  A tile is <<letter, n>>: the Tile object for that letter  *)
(* created by the n-th initialize_bag call (add_to_bag appends the same     *)
(* object quantity times, and Tile defines no __eq__).                      *)

Reverse(s) == [i \in 1..Len(s) |-> s[Len(s) + 1 - i]]

\* random.shuffle: the orders explored for a shuffled list
Shuffles(s) == {s, Reverse(s)}

add_to_bag(b, tile, quantity) == b \o [i \in 1..quantity |-> tile]

RECURSIVE AddDistribution(_, _, _)
AddDistribution(b, n, k) ==
    IF k > Len(Distribution) THEN b
    ELSE AddDistribution(
            add_to_bag(b, <<Distribution[k][1], n>>, Distribution[k][2]), n, k + 1)

\* Bag.initialize_bag, as the n-th call: appends to what the bag holds, then shuffles
initialize_bag(b, n) == Shuffles(AddDistribution(b, n, 1))

\* (variant) the bag is never refilled
take_without_refill(b, inits) ==
    {[tile  |-> b[Len(b)],
      bag   |-> SubSeq(b, 1, Len(b) - 1),
      inits |-> inits]}

\* Bag.take_from_bag: the possible [tile, bag, inits] after the call
take_from_bag(b, inits) ==
    LET filled == IF Len(b) < REFILL_BELOW
                  THEN {[bag |-> b2, inits |-> inits + 1] :
                            b2 \in initialize_bag(b, inits + 1)}
                  ELSE {[bag |-> b, inits |-> inits]}
    IN  {[tile  |-> f.bag[Len(f.bag)],
          bag   |-> SubSeq(f.bag, 1, Len(f.bag) - 1),
          inits |-> f.inits] : f \in filled}

\* Rack.add_to_rack, n times in a row (Rack.initialize: n = 7)
RECURSIVE add_to_rack(_, _, _, _)
add_to_rack(rack, b, inits, n) ==
    IF n = 0 THEN {[rack |-> rack, bag |-> b, inits |-> inits]}
    ELSE UNION {add_to_rack(Append(rack, t.tile), t.bag, t.inits, n - 1) :
                    t \in take_from_bag(b, inits)}

\* (variant) no tile is drawn
replenish_nothing(rack, b, inits) == {[rack |-> rack, bag |-> b, inits |-> inits]}

\* Rack.replenish_rack
RECURSIVE replenish_rack(_, _, _)
replenish_rack(rack, b, inits) ==
    IF Len(rack) < RACK_SIZE /\ Len(b) > 0
    THEN UNION {replenish_rack(Append(rack, t.tile), t.bag, t.inits) :
                    t \in take_from_bag(b, inits)}
    ELSE {[rack |-> rack, bag |-> b, inits |-> inits]}

\* list.remove(tile): the list without its first element equal to tile
remove_from_rack(rack, tile) ==
    LET k == CHOOSE i \in 1..Len(rack) :
                 rack[i] = tile /\ \A j \in 1..(i - 1) : rack[j] # tile
    IN  SubSeq(rack, 1, k - 1) \o SubSeq(rack, k + 1, Len(rack))

\* place_word's inner loop "for tile in rack: if tile.letter == letter: remove":
\* the list iterator is at index k (from 0) of the list being shortened
RECURSIVE RemoveLetter(_, _, _)
RemoveLetter(rack, letter, k) ==
    IF k >= Len(rack) THEN rack
    ELSE IF rack[k + 1][1] = letter
         THEN RemoveLetter(remove_from_rack(rack, rack[k + 1]), letter, k + 1)
         ELSE RemoveLetter(rack, letter, k + 1)

\* place_word's outer loop "for letter in word"
RECURSIVE RemoveUsedTiles(_, _)
RemoveUsedTiles(rack, w) ==
    IF w = <<>> THEN rack
    ELSE RemoveUsedTiles(RemoveLetter(rack, Head(w), 0), Tail(w))

-----------------------------------------------------------------------------
(* Word.check_word *)

\* what check_word returns, and the exception an out-of-range list index raises
True              == "True"
None              == "None"
InvalidDirection  == "Error: Please enter a valid direction (right or down)."
NotAWord          == "Please enter a valid dictionary word."
Disconnected      == "The word must connect to an existing letter on the board."
MissingTiles      == "You do not have the necessary tiles to play the word."
OutOfBounds       == "The word placement is out of bounds."
MustStartAtCenter == "The first word must begin at the center of the board (7, 7)."
IndexError        == "IndexError"

\* the lines of dic.txt (the lexicon the game is run with)
Dictionary == {<<"C","A","T">>, <<"A","T">>}

\* the i-th (from 0) index pair check_word reads for a placement
Target(loc, dir, i) ==
    IF dir = RIGHT THEN <<loc[1], loc[2] + i>> ELSE <<loc[1] + i, loc[2]>>

\* the stripped cell strings check_word takes for "no letter here"
EmptyMarks ==
    {<<>>, <<"T","W","S">>, <<"D","W","S">>, <<"T","L","S">>, <<"D","L","S">>, <<"*">>}

\* check_word's current_board_ltr after its first loop
current_board_ltr(brd, w, loc, dir) ==
    [i \in 1..Len(w) |->
        LET t == Target(loc, dir, i - 1)
            board_tile == CellStr(brd[At(t[1], t[2])])
        IN  IF Strip(board_tile) \in EmptyMarks THEN " " ELSE Strip(board_tile)[2]]

\* the first loop indexes the board outside its 15 rows or columns
ReadRaises(w, loc, dir) ==
    \E i \in 0..(Len(w) - 1) :
        ~IndexOK(Target(loc, dir, i)[1]) \/ ~IndexOK(Target(loc, dir, i)[2])

\* "round_number > 1 and current_board_ltr == ' ' * len(self.word)"
NotConnected(brd, w, loc, dir, rnd) ==
    rnd > 1 /\ current_board_ltr(brd, w, loc, dir) = [i \in 1..Len(w) |-> " "]

YELLOW_TEXT == <<"ESC","[","0",";","3","3","m">>

\* Rack.get_rack_str
RECURSIVE get_rack_str(_)
get_rack_str(rack) ==
    IF rack = <<>> THEN <<>>
    ELSE YELLOW_TEXT \o <<Head(rack)[1]>> \o RESET_TEXT
         \o (IF Len(rack) > 1 THEN <<",", " ">> ELSE <<>>) \o get_rack_str(Tail(rack))

\* str.count of a one-character string
Count(s, c) == Cardinality({i \in 1..Len(s) : s[i] = c})

\* check_word's needed_tiles, which it never assigns after initialising it to ""
needed_tiles == <<>>

\* "for letter in needed_tiles: if rack_str.count(letter) < needed_tiles.count(letter)"
LacksTiles(rack) ==
    \E i \in 1..Len(needed_tiles) :
        Count(get_rack_str(rack), needed_tiles[i]) < Count(needed_tiles, needed_tiles[i])

\* the bounds test of check_word
OffBoard(w, loc, dir) ==
    \/ loc[1] < 0
    \/ loc[2] < 0
    \/ (dir = RIGHT /\ loc[2] + Len(w) > BOARD_SIZE)
    \/ (dir = DOWN /\ loc[1] + Len(w) > BOARD_SIZE)

\* (variant) the test leaves out whose turn it is
NotAtCenterAnyPlayer(loc, p, rnd) == rnd = 1 /\ loc # <<7, 7>>

\* "round_number == 1 and players[0] == self.player and self.location != [7, 7]"
NotAtCenter(loc, p, rnd) == rnd = 1 /\ p = 0 /\ loc # <<7, 7>>

\* Word.check_word on the Word object wd of player p: the value returned, or
\* IndexError when the call raises
check_word(wd, p, brd, rnd, rack) ==
    IF wd.word = <<>> THEN None
    ELSE IF wd.direction # RIGHT /\ wd.direction # DOWN THEN InvalidDirection
    ELSE IF ReadRaises(wd.word, wd.location, wd.direction) THEN IndexError
    ELSE IF wd.word \notin Dictionary THEN NotAWord
    ELSE IF NotConnected(brd, wd.word, wd.location, wd.direction, rnd) THEN Disconnected
    ELSE IF LacksTiles(rack) THEN MissingTiles
    ELSE IF OffBoard(wd.word, wd.location, wd.direction) THEN OutOfBounds
    ELSE IF NotAtCenter(wd.location, p, rnd) THEN MustStartAtCenter
    ELSE True

-----------------------------------------------------------------------------
(* Board.place_word and Word.calculate_word_score *)

\* the index pair place_word tests for a bonus at letter i (from 0): both
\* branches read board[location[0]][location[1]+i]
BonusIndex(loc, dir, i) == <<loc[1], loc[2] + i>>

\* (variant) the loop starts from the board as Board.__init__ built it
PlaceLettersOnNewBoard(brd, spots, w, loc, dir, i) ==
    [board |-> [c \in Cells |->
                    IF \E j \in 0..(Len(w) - 1) : Target(loc, dir, j) = c
                    THEN w[(CHOOSE j \in 0..(Len(w) - 1) : Target(loc, dir, j) = c) + 1]
                    ELSE InitialBoard[c]],
     premium_spots |-> spots, raised |-> None]

\* place_word's loop from letter i (from 0) on: the board and premium_spots it
\* leaves, and the exception it raises, if any
RECURSIVE PlaceLetters(_, _, _, _, _, _)
PlaceLetters(brd, spots, w, loc, dir, i) ==
    IF i >= Len(w) \/ (dir # RIGHT /\ dir # DOWN)
    THEN [board |-> brd, premium_spots |-> spots, raised |-> None]
    ELSE LET rd == BonusIndex(loc, dir, i)
             wr == Target(loc, dir, i)
         IN  IF ~IndexOK(rd[1]) \/ ~IndexOK(rd[2])
             THEN [board |-> brd, premium_spots |-> spots, raised |-> IndexError]
             ELSE LET was == brd[At(rd[1], rd[2])]
                      spots2 == IF CellStr(was) # <<" ", " ", " ">>
                                THEN Append(spots, <<w[i + 1], was>>)
                                ELSE spots
                  IN  IF ~IndexOK(wr[1]) \/ ~IndexOK(wr[2])
                      THEN [board |-> brd, premium_spots |-> spots2,
                            raised |-> IndexError]
                      ELSE PlaceLetters([brd EXCEPT ![At(wr[1], wr[2])] = w[i + 1]],
                                        spots2, w, loc, dir, i + 1)

\* calculate_word_score: what the spots add for one letter of the word
RECURSIVE LetterBonus(_, _)
LetterBonus(letter, spots) ==
    IF spots = <<>> THEN 0
    ELSE (IF letter = Head(spots)[1]
          THEN IF CellStr(Head(spots)[2]) = <<"T","L","S">>
               THEN LETTER_VALUES[letter] * 2
               ELSE IF CellStr(Head(spots)[2]) = <<"D","L","S">>
                    THEN LETTER_VALUES[letter]
                    ELSE 0
          ELSE 0)
         + LetterBonus(letter, Tail(spots))

\* calculate_word_score: word_score after its first loop
RECURSIVE LetterTotal(_, _)
LetterTotal(w, spots) ==
    IF w = <<>> THEN 0
    ELSE LetterBonus(Head(w), spots) + LETTER_VALUES[Head(w)] + LetterTotal(Tail(w), spots)

\* calculate_word_score: the second loop, over the spots in order
RECURSIVE WordMultipliers(_, _)
WordMultipliers(word_score, spots) ==
    IF spots = <<>> THEN word_score
    ELSE WordMultipliers(
            IF CellStr(Head(spots)[2]) = <<"T","W","S">> THEN word_score * 3
            ELSE IF CellStr(Head(spots)[2]) = <<"D","W","S">> THEN word_score * 2
            ELSE word_score,
            Tail(spots))

\* (variant) the letter values are left out of the sum
calculate_without_values(w, spots) == WordMultipliers(0, spots)

\* the amount calculate_word_score passes to increase_score
calculate_word_score(w, spots) == WordMultipliers(LetterTotal(w, spots), spots)

-----------------------------------------------------------------------------
(* start_game *)

\* the numbers of players explored (start_game accepts 2, 3 and 4)
PlayerCounts == {2}

\* "players.append(Player(bag))" for the players from k on: every Rack draws 7 tiles
RECURSIVE DealRacks(_, _, _, _, _)
DealRacks(rs, b, inits, k, n) ==
    IF k >= n THEN {[racks |-> rs, bag |-> b, inits |-> inits]}
    ELSE UNION {DealRacks(rs @@ (k :> d.rack), d.bag, d.inits, k + 1, n) :
                    d \in add_to_rack(<<>>, b, inits, RACK_SIZE)}

\* the Word object and the placement locals before turn() has read a placement
NoWord == [word |-> <<>>, location |-> <<>>, direction |-> <<>>]

Init ==
    /\ num_of_players \in PlayerCounts
    /\ board = InitialBoard
    /\ \E b \in initialize_bag(<<>>, 1) :
       \E d \in DealRacks(<<>>, b, 1, 0, num_of_players) :
            /\ racks = d.racks
            /\ bag = d.bag
            /\ bag_inits = d.inits
    /\ scores = [i \in 0..(num_of_players - 1) |-> 0]
    /\ round_number = 1
    /\ skipped_turns = 0
    /\ player = 0
    /\ pc = "menu"
    /\ word = NoWord
    /\ word_to_play = <<>>
    /\ location = <<>>
    /\ direction = <<>>
    /\ checked = None
    /\ premium_spots = <<>>
    /\ winning_player = ""

-----------------------------------------------------------------------------
(* turn *)

\* "if players.index(player) != len(players)-1: players[index+1] else players[0]"
NextPlayer(p) == IF p # num_of_players - 1 THEN p + 1 ELSE 0
\* (variant) the round is counted up after every turn
NextRoundEveryTurn(p, rnd) == rnd + 1

\* round_number after player p has completed a turn
NextRound(p, rnd) == IF p # num_of_players - 1 THEN rnd ELSE rnd + 1

\* (variant) the comparison admits the limit itself
GameGoesOnAtLimit(skips, rack, b) ==
    skips <= MAX_SKIPS \/ (Len(rack) = 0 /\ Len(b) = 0)

\* the test at the head of turn(): the turn is played, otherwise end_game() runs
GameGoesOn(skips, rack, b) ==
    skips < MAX_SKIPS \/ (Len(rack) = 0 /\ Len(b) = 0)

\* the recursive call turn(p, board, bag): a fresh frame at the menu, or end_game
EnterTurn(p, skips, rs, b) ==
    /\ player' = p
    /\ pc' = IF GameGoesOn(skips, rs[p], b) THEN "menu" ELSE "end_game"
    /\ word' = NoWord
    /\ word_to_play' = <<>>
    /\ location' = <<>>
    /\ direction' = <<>>
    /\ checked' = None

\* tiles one initialize_bag call adds
RECURSIVE Quantity(_)
Quantity(k) == IF k = 0 THEN 0 ELSE Distribution[k][2] + Quantity(k - 1)
\* tiles that have left the bag since the game began
Drawn == bag_inits * Quantity(Len(Distribution)) - Len(bag)

\* turns completed since the game began (each ends by a skip or a placement)
TurnsDone == (round_number - 1) * num_of_players + player

\* menu entry 2: shuffle rack
ShuffleRack(maxTurns) ==
    /\ pc = "menu"
    /\ TurnsDone < maxTurns
    /\ \E r \in Shuffles(racks[player]) : racks' = [racks EXCEPT ![player] = r]
    /\ UNCHANGED <<board, bag, bag_inits, scores, num_of_players, winning_player, round_number,
                   skipped_turns, player, pc, word, word_to_play, location,
                   direction, checked, premium_spots>>

\* (variant) the renew ends the turn
RenewRackEndsTurn(maxTurns, maxDrawn) ==
    /\ pc = "menu"
    /\ TurnsDone < maxTurns
    /\ Drawn + RACK_SIZE <= maxDrawn
    /\ \E d \in replenish_rack(<<>>, bag, bag_inits) :
            /\ d.inits <= MaxBagInits
            /\ racks' = [racks EXCEPT ![player] = d.rack]
            /\ bag' = d.bag
            /\ bag_inits' = d.inits
    /\ round_number' = NextRound(player, round_number)
    /\ EnterTurn(NextPlayer(player), skipped_turns, racks', bag')
    /\ UNCHANGED <<board, scores, num_of_players, winning_player, skipped_turns,
                   premium_spots>>

\* menu entry 3: renew rack (rack.clear(), then replenish_rack)
RenewRack(maxTurns, maxDrawn) ==
    /\ pc = "menu"
    /\ TurnsDone < maxTurns
    /\ Drawn + RACK_SIZE <= maxDrawn
    /\ \E d \in replenish_rack(<<>>, bag, bag_inits) :
            /\ d.inits <= MaxBagInits
            /\ racks' = [racks EXCEPT ![player] = d.rack]
            /\ bag' = d.bag
            /\ bag_inits' = d.inits
    /\ UNCHANGED <<board, scores, num_of_players, winning_player, round_number, skipped_turns,
                   player, pc, word, word_to_play, location, direction, checked,
                   premium_spots>>

\* (variant) the skip is not counted
SkipTurnUncounted(maxTurns) ==
    /\ pc = "menu"
    /\ TurnsDone < maxTurns
    /\ skipped_turns' = skipped_turns
    /\ round_number' = NextRound(player, round_number)
    /\ EnterTurn(NextPlayer(player), skipped_turns, racks, bag)
    /\ UNCHANGED <<board, bag, bag_inits, racks, scores, num_of_players, winning_player,
                   premium_spots>>

\* menu entry 4, answered y: skip the turn
SkipTurn(maxTurns) ==
    /\ pc = "menu"
    /\ TurnsDone < maxTurns
    /\ skipped_turns' = skipped_turns + 1
    /\ round_number' = NextRound(player, round_number)
    /\ EnterTurn(NextPlayer(player), skipped_turns + 1, racks, bag)
    /\ UNCHANGED <<board, bag, bag_inits, racks, scores, num_of_players, winning_player,
                   premium_spots>>

\* menu entry 5, answered y: exit()
ExitGame(maxTurns) ==
    /\ pc = "menu"
    /\ TurnsDone < maxTurns
    /\ pc' = "exit"
    /\ UNCHANGED <<board, bag, bag_inits, racks, scores, num_of_players, winning_player,
                   round_number, skipped_turns, player, word, word_to_play,
                   location, direction, checked, premium_spots>>

\* menu entry 1: leave the menu for the placement prompts
Continue(maxTurns) ==
    /\ pc = "menu"
    /\ TurnsDone < maxTurns
    /\ pc' = "input"
    /\ UNCHANGED <<board, bag, bag_inits, racks, scores, num_of_players, winning_player,
                   round_number, skipped_turns, player, word, word_to_play,
                   location, direction, checked, premium_spots>>

\* the column and row answers are both among "0".."14"
ValidCell(col, row) ==
    ~((col = <<>> \/ row = <<>>) \/ (~InRangeStrings(col) \/ ~InRangeStrings(row)))

\* the local location turn() builds from the column and row answers
ReadLocation(col, row) ==
    IF ValidCell(col, row) THEN <<ToInt(row), ToInt(col)>> ELSE <<-1, -1>>

\* (variant) the loop writes each letter of the word into its cell
OverlapLoopWrites(brd, w, loc, dir) == PlaceLetters(brd, <<>>, w, loc, dir, 0).board

\* check_word's loop headed "Ensure overlapping letters on the board match the
\* word being played": it evaluates board[..][..] for every letter and assigns
\* nothing, so the board it leaves is the board it found
OverlapLoop(brd, w, loc, dir) == brd

\* the validation step shared by both prompts: check_word on the Word object wd
Validate(wd) ==
    LET res == check_word(wd, player, board, round_number, racks[player])
    IN  /\ word' = wd
        /\ board' = IF res \in {None, InvalidDirection, IndexError, NotAWord}
                    THEN board
                    ELSE OverlapLoop(board, wd.word, wd.location, wd.direction)
        /\ IF res = IndexError
           THEN pc' = "check_word raised" /\ UNCHANGED checked
           ELSE pc' = "loop" /\ checked' = res

\* the first prompts of a turn: Word(word_to_play, location, player, direction,
\* board) and its check_word
FirstAttempt(words, cells, dirs) ==
    /\ pc = "input"
    /\ \E w \in words, c \in cells, d \in dirs :
            /\ word_to_play' = w
            /\ location' = ReadLocation(c[1], c[2])
            /\ direction' = d
            /\ Validate([word |-> Upper(w), location |-> ReadLocation(c[1], c[2]),
                         direction |-> Lower(d)])
    /\ UNCHANGED <<bag, bag_inits, racks, scores, num_of_players, winning_player,
                   round_number, skipped_turns, player, premium_spots>>

\* one pass of "while checked != True": new prompts, the setters, check_word
RetryAttempt(words, cells, dirs) ==
    /\ pc = "loop"
    /\ checked # True
    /\ \E w \in words, c \in cells, d \in dirs :
            /\ word_to_play' = w
            /\ location' = ReadLocation(c[1], c[2])
            /\ direction' = d
            /\ Validate([word |-> Upper(w),
                         location |-> IF ValidCell(c[1], c[2])
                                      THEN <<ToInt(c[2]), ToInt(c[1])>>
                                      ELSE word.location,
                         direction |-> d])
    /\ UNCHANGED <<bag, bag_inits, racks, scores, num_of_players, winning_player,
                   round_number, skipped_turns, player, premium_spots>>

\* after the loop: place_word, calculate_word_score, skipped_turns = 0, the
\* next player and the recursive turn() call
PlaceWord ==
    /\ pc = "loop"
    /\ checked = True
    /\ LET placed == PlaceLetters(board, <<>>, Upper(word_to_play), location,
                                  Lower(direction), 0)
       IN  /\ board' = placed.board
           /\ premium_spots' = placed.premium_spots
           /\ IF placed.raised = IndexError
              THEN /\ pc' = "place_word raised"
                   /\ UNCHANGED <<bag, bag_inits, racks, scores, round_number,
                                  skipped_turns, player, word, word_to_play,
                                  location, direction, checked>>
              ELSE \E d \in replenish_rack(
                                RemoveUsedTiles(racks[player], Upper(word_to_play)),
                                bag, bag_inits) :
                        /\ d.inits <= MaxBagInits
                        /\ racks' = [racks EXCEPT ![player] = d.rack]
                        /\ bag' = d.bag
                        /\ bag_inits' = d.inits
                        /\ scores' = [scores EXCEPT ![player] =
                                @ + calculate_word_score(word.word, placed.premium_spots)]
                        /\ skipped_turns' = 0
                        /\ round_number' = NextRound(player, round_number)
                        /\ EnterTurn(NextPlayer(player), 0, racks', bag')
    /\ UNCHANGED <<num_of_players, winning_player>>

\* Player.get_name: the name of player i (start_game asks each player for one)
get_name(i) == ToString(i)

\* end_game: "player.get_score > highest_score" compares a bound method with an
\* int, which raises TypeError for the first player of the list
EndGame ==
    /\ pc = "end_game"
    /\ pc' = "TypeError"
    /\ UNCHANGED <<board, bag, bag_inits, racks, scores, num_of_players, winning_player,
                   round_number, skipped_turns, player, word, word_to_play,
                   location, direction, checked, premium_spots>>

-----------------------------------------------------------------------------------------------------------------------------------------------------
(* The game: every menu entry, with few answers at the placement prompts *)

\* the answers explored at the prompts: <<column answer, row answer>> for a cell
GameWords == {<<"c","a","t">>}
GameCells == {<< <<"7">>, <<"7">> >>, << <<>>, <<"3">> >>}
GameDirections == {RIGHT, DOWN}

Next ==
    \/ ShuffleRack(MaxTurns)
    \/ RenewRack(MaxTurns, MaxDrawn)
    \/ SkipTurn(MaxTurns)
    \/ ExitGame(MaxTurns)
    \/ Continue(MaxTurns)
    \/ FirstAttempt(GameWords, GameCells, GameDirections)
    \/ RetryAttempt(GameWords, GameCells, GameDirections)
    \/ PlaceWord
    \/ EndGame

Spec == Init /\ [][Next]_vars

-----------------------------------------------------------------------------
(* The placement prompts: many answers, over the first turns of a game in  *)
(* which no rack is shuffled or renewed                                    *)

InputWords == {<<"c","a","t">>, <<"x","q">>}
InputCells ==
    {<< <<"7">>, <<"7">> >>, << <<"8">>, <<"7">> >>, << <<"5">>, <<"5">> >>,
     << <<"1","4">>, <<"1","4">> >>, << <<>>, <<"3">> >>}
InputDirections == {RIGHT, DOWN, <<"R","i","g","h","t">>}

NextPlacement ==
    \/ SkipTurn(MaxPlacementTurns)
    \/ Continue(MaxPlacementTurns)
    \/ FirstAttempt(InputWords, InputCells, InputDirections)
    \/ RetryAttempt(InputWords, InputCells, InputDirections)
    \/ PlaceWord

SpecPlacement == Init /\ [][NextPlacement]_vars

-----------------------------------------------------------------------------
(* Scoring: placements on and next to word-multiplier squares              *)

ScoreWords == {<<"c","a","t">>}
ScoreCells ==
    {<< <<"7">>, <<"7">> >>, << <<"0">>, <<"7">> >>, << <<"4">>, <<"4">> >>,
     << <<"0">>, <<"6">> >>}
ScoreDirections == {RIGHT, DOWN}

NextScoring ==
    \/ SkipTurn(MaxScoringTurns)
    \/ Continue(MaxScoringTurns)
    \/ FirstAttempt(ScoreWords, ScoreCells, ScoreDirections)
    \/ RetryAttempt(ScoreWords, ScoreCells, ScoreDirections)
    \/ PlaceWord

SpecScoring == Init /\ [][NextScoring]_vars

-----------------------------------------------------------------------------
(* The supply: racks renewed until the bag has been refilled, a placement  *)
(* in the first turn, and skips up to the end of the game                  *)

SupplyDirections == {RIGHT}

NextSupply ==
    \/ RenewRack(MaxSupplyTurns, MaxSupplyDrawn)
    \/ SkipTurn(MaxSupplyTurns)
    \/ Continue(MaxSupplyPlacementTurns)
    \/ FirstAttempt(GameWords, GameCells, SupplyDirections)
    \/ RetryAttempt(GameWords, GameCells, SupplyDirections)
    \/ PlaceWord
    \/ EndGame

SpecSupply == Init /\ [][NextSupply]_vars

-----------------------------------------------------------------------------
(* Properties *)

\* cells holding a placed letter
Occupied == {c \in Cells : board[c] \in Letters}

RECURSIVE TilesInRacks(_)
TilesInRacks(k) == IF k = 0 THEN 0 ELSE Len(racks[k - 1]) + TilesInRacks(k - 1)

\* tiles held across the bag, the racks and the board
TotalTiles == Len(bag) + TilesInRacks(num_of_players) + Cardinality(Occupied)

\* C1: while the bag is not refilled, no step changes the total number of tiles
\* held across the bag, all racks and the occupied board cells.
C1_TilesConserved == [][bag_inits' = bag_inits => TotalTiles' = TotalTiles]_vars

\* the cells of the grid a placement of w at loc in direction dir covers
Covered(w, loc, dir) == {Target(loc, dir, i) : i \in 0..(Len(w) - 1)} \cap Cells

\* the placement covers no cell that holds a placed letter
NoLetterUnder(w, loc, dir) == Covered(w, loc, dir) \cap Occupied = {}

\* the letters of w the rack has to supply: those at positions whose cell holds no letter
NeededFromRack(w, loc, dir, l) ==
    Cardinality({i \in 1..Len(w) :
                    w[i] = l /\ Target(loc, dir, i - 1) \notin Occupied})

\* the reasons of the specification, in its order
C2_Reasons ==
    <<InvalidDirection, NotAWord, OutOfBounds, Disconnected, MustStartAtCenter,
      MissingTiles>>

\* the k-th rule of the specification rejects the placement held in word
C2_Rejects(k) ==
    CASE k = 1 -> word.direction # RIGHT /\ word.direction # DOWN
      [] k = 2 -> word.word = <<>> \/ word.word \notin Dictionary
      [] k = 3 -> OffBoard(word.word, word.location, word.direction)
      [] k = 4 -> round_number > 1
                  /\ NoLetterUnder(word.word, word.location, word.direction)
      [] k = 5 -> round_number = 1 /\ player = 0 /\ word.location # <<7, 7>>
      [] k = 6 -> \E l \in Letters :
                      NeededFromRack(word.word, word.location, word.direction, l)
                        > Cardinality({i \in 1..Len(racks[player]) :
                                            racks[player][i][1] = l})

\* check_word has just run on the placement held in word
Validated == pc = "loop" \/ pc = "check_word raised"

\* C2: a placement that violates more than one rule is reported with the first
\* failing reason in the order InvalidDirection, NotAWord, OutOfBounds,
\* Disconnected, MustStartAtCenter, MissingTiles.
C2_FirstFailingReason ==
    (Validated /\ Cardinality({k \in 1..6 : C2_Rejects(k)}) > 1)
        => /\ pc = "loop"
           /\ checked = C2_Reasons[CHOOSE k \in 1..6 :
                            C2_Rejects(k) /\ \A j \in 1..(k - 1) : ~C2_Rejects(j)]

\* the step about to be taken is a validation attempt
AtPrompts == pc = "input" \/ (pc = "loop" /\ checked # True)

FitsGrid ==
    /\ word.word \in Dictionary
    /\ word.direction \in {RIGHT, DOWN}
    /\ ~OffBoard(word.word, word.location, word.direction)

C5_OutOfBoundsReturned ==
    (/\ Validated
     /\ word.word \in Dictionary
     /\ word.direction \in {RIGHT, DOWN}
     /\ OffBoard(word.word, word.location, word.direction))
        => (pc = "loop" /\ checked = OutOfBounds)

\* C6: after round 1, a placement (of a lexicon word, inside the grid) that
\* covers no placed letter fails with Disconnected, and one that covers a
\* placed letter does not.
C6_Connectivity ==
    (Validated /\ FitsGrid /\ round_number > 1)
        => (NoLetterUnder(word.word, word.location, word.direction)
                <=> (pc = "loop" /\ checked = Disconnected))

TurnEnds ==
    \/ pc = "menu" /\ pc' \in {"menu", "end_game"} /\ skipped_turns' # skipped_turns
    \/ pc = "loop" /\ pc' \in {"menu", "end_game"}

\* C8: the round number starts at 1; a completed turn passes the turn to the
\* next player of the list, or from the last player to player 0 with the round
\* number increased by 1; no other step changes the active player or the round.
C8_RoundRobin ==
    /\ round_number = 1
    /\ player = 0
    /\ [][/\ TurnEnds =>
                /\ player' = IF player = num_of_players - 1 THEN 0 ELSE player + 1
                /\ round_number' = IF player = num_of_players - 1
                                   THEN round_number + 1
                                   ELSE round_number
          /\ ~TurnEnds => UNCHANGED <<player, round_number>>]_vars

C8_Witness == round_number = 3 /\ player = 1 /\ skipped_turns = 1 /\ pc = "menu"

\* the step is a confirmed skip / a successful placement
SkipStep == pc = "menu" /\ player' # player
PlaceStep == pc = "loop" /\ checked = True /\ pc' \in {"menu", "end_game"}

RECURSIVE C10_LetterValues(_, _, _, _)
C10_LetterValues(w, loc, dir, i) ==
    IF i >= Len(w) THEN 0
    ELSE LET t == Target(loc, dir, i)
             kind == board[At(t[1], t[2])]
         IN  LETTER_VALUES[w[i + 1]]
                * (IF kind = "TLS" THEN 3 ELSE IF kind = "DLS" THEN 2 ELSE 1)
             + C10_LetterValues(w, loc, dir, i + 1)

\* C10: a placement that covers no word-multiplier square scores the values of
\* its letters, tripled on TRIPLE_LETTER cells and doubled on DOUBLE_LETTER cells.
C10_LetterBonuses ==
    [][(/\ PlaceStep
        /\ \A c \in Covered(Upper(word_to_play), location, Lower(direction)) :
                board[c] \notin {"TWS", "DWS"})
          => scores'[player] = scores[player]
                + C10_LetterValues(Upper(word_to_play), location, Lower(direction), 0)]_vars

\* the factor the word-multiplier squares under the placement give: 3 for a
\* TRIPLE_WORD cell among its cells, 2 for a DOUBLE_WORD cell
C11_Multiplier(w, loc, dir) ==
    (IF \E c \in Covered(w, loc, dir) : board[c] = "TWS" THEN 3 ELSE 1)
      * (IF \E c \in Covered(w, loc, dir) : board[c] = "DWS" THEN 2 ELSE 1)

\* C11: a placement that covers no letter-bonus square adds to the player's
\* score the sum of its letter values, multiplied by 3 when one of its cells
\* was a TRIPLE_WORD square and by 2 when one was a DOUBLE_WORD square.
C11_WordMultipliers ==
    [][(/\ PlaceStep
        /\ \A c \in Covered(Upper(word_to_play), location, Lower(direction)) :
                board[c] \notin {"TLS", "DLS"})
          => scores'[player] = scores[player]
                + C10_LetterValues(Upper(word_to_play), location, Lower(direction), 0)
                    * C11_Multiplier(Upper(word_to_play), location, Lower(direction))]_vars

\* the first player, in turn order, whose score is the maximum
C12_FirstMaximum ==
    CHOOSE i \in 0..(num_of_players - 1) :
        /\ \A j \in 0..(num_of_players - 1) : scores[j] <= scores[i]
        /\ \A j \in 0..(i - 1) : scores[j] < scores[i]

\* C12: the end-of-game step announces as winner the first player, in turn
\* order, whose score is the maximum over all players.
C12_WinnerHasMaximum ==
    [][pc = "end_game" => winning_player' = get_name(C12_FirstMaximum)]_vars

\* the bags the draws of the next rack fill find: the bag less its last k tiles
C13_BagsAtDraw == {SubSeq(bag, 1, Len(bag) - k) : k \in 0..(RACK_SIZE - 1)}

\* the pool holds 100 tiles, one J and five K, all of them made by fill n
C13_Standard(pool, n) ==
    /\ Len(pool) = 100
    /\ Cardinality({i \in 1..Len(pool) : pool[i][1] = "J"}) = 1
    /\ Cardinality({i \in 1..Len(pool) : pool[i][1] = "K"}) = 5
    /\ \A i \in 1..Len(pool) : pool[i][2] = n

\* C13: the pool the bag is filled to at construction, and the pool any draw
\* that finds fewer than 10 tiles refills it to (taken before the drawn tile
\* leaves it), is the standard distribution with nothing left from before.
C13_RefillIsStandard ==
    /\ \A b \in initialize_bag(<<>>, 1) : C13_Standard(b, 1)
    /\ \A b \in C13_BagsAtDraw :
            Len(b) < REFILL_BELOW =>
                \A t \in take_from_bag(b, bag_inits) :
                    C13_Standard(Append(t.bag, t.tile), bag_inits + 1)

\* (the refill alone) tiles that were in the bag before a refill are not in
\* the pool after it
C13_NoLeftovers ==
    \A b \in C13_BagsAtDraw :
        Len(b) < REFILL_BELOW =>
            \A t \in take_from_bag(b, bag_inits) :
                \A i \in 1..Len(t.bag) : t.bag[i][2] = bag_inits + 1

\* C14: the bag is never empty, neither between two steps nor at any draw of
\* the next rack fill; the active player never has an empty rack with an empty
\* bag; and end_game is entered only with 6 skips counted.
C14_DrawNeverFails ==
    /\ Len(bag) > 0
    /\ \A b \in C13_BagsAtDraw : Len(b) > 0
    /\ ~(Len(racks[player]) = 0 /\ Len(bag) = 0)
    /\ pc \in {"end_game", "TypeError"} => skipped_turns >= MAX_SKIPS

C14_Witness == bag_inits = 2 /\ pc = "menu" /\ Len(bag) < 110

\* C15: no rack ever holds more than 7 tiles, and the player at the menu
\* holds exactly 7.
C15_RackSize ==
    /\ \A i \in 0..(num_of_players - 1) : Len(racks[i]) <= RACK_SIZE
    /\ pc = "menu" => Len(racks[player]) = RACK_SIZE

C15_Witness ==
    /\ pc = "menu"
    /\ Occupied # {}
    /\ Drawn > 2 * RACK_SIZE + 3
    /\ round_number = 3

\* the sum of the letter values of w
RECURSIVE C16_BaseScore(_)
C16_BaseScore(w) ==
    IF w = <<>> THEN 0 ELSE LETTER_VALUES[Head(w)] + C16_BaseScore(Tail(w))

\* C16: every score starts at 0 and never decreases; a score changes only in
\* a successful placement of that player; and each successful placement
\* raises the player's score by at least the letter values of its word.
C16_ScoresGrow ==
    /\ \A i \in 0..(num_of_players - 1) : scores[i] = 0
    /\ [][/\ \A i \in 0..(num_of_players - 1) :
                /\ scores'[i] >= scores[i]
                /\ scores'[i] # scores[i] => (PlaceStep /\ i = player)
          /\ PlaceStep =>
                scores'[player] >= scores[player] + C16_BaseScore(Upper(word_to_play))]_vars

C16_Witness == scores[0] >= 5 /\ scores[1] >= 5 /\ pc = "menu"

\* the two racks hold the same tiles, each as many times
C17_SameTiles(r1, r2) ==
    /\ Len(r1) = Len(r2)
    /\ \A i \in 1..Len(r1) :
            Cardinality({j \in 1..Len(r1) : r1[j] = r1[i]})
                = Cardinality({j \in 1..Len(r2) : r2[j] = r1[i]})

\* C17: a step from the menu that changes a rack or the bag (a shuffle or a
\* renew) changes nothing but the active player's rack and the bag, and keeps
\* the player at the menu; when the bag is untouched (a shuffle) the rack
\* holds the same tiles as before.
C17_ShuffleRenewFrame ==
    [][(pc = "menu" /\ (racks' # racks \/ bag' # bag)) =>
            /\ UNCHANGED <<board, player, round_number, skipped_turns, scores, pc,
                           num_of_players, word, word_to_play, location,
                           direction, checked, premium_spots, winning_player>>
            /\ \A i \in 0..(num_of_players - 1) : i # player => racks'[i] = racks[i]
            /\ bag' = bag => C17_SameTiles(racks[player], racks'[player])]_vars

C17_Witness ==
    /\ pc = "menu"
    /\ round_number = 1
    /\ player = 0
    /\ skipped_turns = 0
    /\ Drawn = 3 * RACK_SIZE
    /\ racks[0][1][1] = "S"
    /\ racks[0][RACK_SIZE][1] = "T"

\* the placement about to be applied lies inside the grid
C18_InsideGrid ==
    Cardinality(Covered(Upper(word_to_play), location, Lower(direction)))
        = Len(word_to_play)

\* the bonus triggers of the placement of w from letter i (from 0) on: letter
\* and prior content of every target cell that is not empty
RECURSIVE C18_Triggers(_, _, _, _)
C18_Triggers(w, loc, dir, i) ==
    IF i >= Len(w) THEN <<>>
    ELSE (IF board[Target(loc, dir, i)] # "empty"
          THEN << <<w[i + 1], board[Target(loc, dir, i)]>> >>
          ELSE <<>>)
         \o C18_Triggers(w, loc, dir, i + 1)

\* C18: applying a validated placement that lies inside the grid writes
\* letter i into cell (row, col+i) for right and (row+i, col) for down,
\* changes no other cell, raises nothing, and records a bonus trigger for
\* letter i exactly when that target cell was not empty before.
C18_PlacementCells ==
    [][(pc = "loop" /\ checked = True /\ C18_InsideGrid) =>
         LET w == Upper(word_to_play)
             dir == Lower(direction)
         IN  /\ pc' \in {"menu", "end_game"}
             /\ \A i \in 0..(Len(w) - 1) :
                    board'[Target(location, dir, i)] = w[i + 1]
             /\ \A c \in Cells \ Covered(w, location, dir) : board'[c] = board[c]
             /\ premium_spots' = C18_Triggers(w, location, dir, 0)]_vars

\* C19: when check_word has returned True, the word, the location and the
\* direction turn() passes to place_word (which puts the word in upper and the
\* direction in lower case) are those of the Word object that was checked.
C19_PlacedIsValidated ==
    (pc = "loop" /\ checked = True) =>
        /\ Upper(word_to_play) = word.word
        /\ location = word.location
        /\ Lower(direction) = word.direction

\* C20: a placement is accepted only if every cell of it that holds a placed
\* letter holds the letter the word has there, and a successful placement
\* changes the letter of no occupied cell.
C20_OverlapsMatch ==
    /\ []((pc = "loop" /\ checked = True) =>
            \A i \in 0..(Len(word.word) - 1) :
                LET t == Target(word.location, word.direction, i)
                IN  t \in Occupied => board[t] = word.word[i + 1])
    /\ [][PlaceStep => \A c \in Occupied : board'[c] = board[c]]_vars

\* C21: a placement is accepted only when the player's rack holds the letters
\* of the word at the positions whose cell holds no letter, and a placement
\* that breaks no other rule but lacks tiles is rejected with MissingTiles.
C21_TilesRequired ==
    /\ (pc = "loop" /\ checked = True) => ~C2_Rejects(6)
    /\ (Validated /\ C2_Rejects(6) /\ \A k \in 1..5 : ~C2_Rejects(k))
            => (pc = "loop" /\ checked = MissingTiles)

\* C22: the placement applied to a board that holds no letter begins at (7,7).
C22_FirstWordAtCenter ==
    [][(PlaceStep /\ Occupied = {}) => location = <<7, 7>>]_vars

\* (the same for the location check_word validated, whatever place_word is
\* then given) after a skip the first placement is validated away from (7,7)
C22_FirstValidatedAtCenter ==
    (pc = "loop" /\ checked = True /\ Occupied = {}) => word.location = <<7, 7>>

\* tiles of letter l in the rack
C23_Held(rack, l) == Cardinality({i \in 1..Len(rack) : rack[i][1] = l})

\* the tiles the placement step left in the rack before it drew new ones: the
\* rack after the step without the tiles that left the bag
C23_Kept == SubSeq(racks'[player], 1, RACK_SIZE - (Len(bag) - Len(bag')))

\* C23: a successful placement removes from the player's rack, for every
\* letter, at most as many tiles as the word has of that letter, and no tile
\* of a letter that is not in the word.
C23_TilesRemoved ==
    [][(PlaceStep /\ bag_inits' = bag_inits) =>
         \A l \in Letters :
            /\ C23_Held(C23_Kept, l) <= C23_Held(racks[player], l)
            /\ C23_Held(racks[player], l) - C23_Held(C23_Kept, l)
                 <= Count(Upper(word_to_play), l)]_vars

====
